---- MODULE Spec2Model ----
(***************************************************************************)
(* QR / BAR Run-Timer (src/main.py): camera thread -> bounded queue ->     *)
(* Scanner.process (adaptive frame skip, per-payload cooldown) ->          *)
(* App.record_scan / App.start_race (runner registry and race clock).      *)
(*                                                                         *)
(* Strings are sequences of one-character strings, so that the identity    *)
(* pattern and the lap-key formatting are computed, not assumed.           *)
(* Times are whole seconds of one wall clock `now` (time.time() and        *)
(* datetime.now() read the same clock).                                    *)
(***************************************************************************)
EXTENDS Integers, Sequences, FiniteSets, TLC

\* ---------- program constants (src/main.py) --------------------------------
SCAN_COOLDOWN == 10
MAX_FRAME_SKIP == 6
QUEUE_MAXSIZE == 4
FRAME_SKIP_INIT == 2
FRAME_SKIP_RESET == 2

\* ---------- bounds of the model --------------------------------------------
MaxSessions == 2
MaxCodes == 2
MaxFrames == 6

None == -1

Digits == {"0", "1", "2", "3", "4", "5", "6", "7", "8", "9"}

\* decoded payloads the decoder may return: two runner ids and one string the
\* identity pattern rejects (five digits: one short of the minimum)
IdA == <<"0", "0", "0", "0", "0", "1">>
IdB == <<"0", "0", "0", "0", "0", "2">>
Junk == <<"1", "2", "3", "4", "5">>

\* the instants at which the wall clock is observed
Instants == {10, 15, 20, 30}
SessionInstants == {10, 20}
LapInstants == {10, 20, 30, 40}
CooldownInstants == {8, 10, 11, 12, 19, 20, 21}
ScenarioInstants == {10, 18, 20, 25, 27, 33}
CameraInstants == {10}

Sessions == 1..MaxSessions

VARIABLES
    now,            \* the wall clock, in seconds
    runs,           \* App.runs: insertion-ordered mapping, a sequence of [key, start, end]
    race_started,   \* App.race_started
    race_start_ts,  \* App.race_start_ts (None until the gun)
    nsess,          \* number of start_preview calls that created a session
    win,            \* per session: "none", "open" or "closed" (the Toplevel window)
    q,              \* per session: the queue.Queue(maxsize=4) of frames
    last_scan_ts,   \* per session: Scanner.last_scan_ts (payload -> time)
    frame_skip,     \* per session: Scanner.frame_skip
    interval,       \* history, per session: frame_skip as the latest decode attempt left it
    last_cb,        \* history, per session: payload -> time of its latest on_code_cb call
    step,           \* history: what the latest handler did
    hist,           \* history: the set of decodes of valid ids, [s, p, t, ok], where a run records them
    cam,            \* per session: the CameraThread, where a run follows it statement by statement
    csv             \* the rows export_csv wrote last, where a run exports

vars == <<now, runs, race_started, race_start_ts, nsess, win, q,
          last_scan_ts, frame_skip, interval, last_cb, step, hist, cam, csv>>

\* ---------- helpers ---------------------------------------------------------
Min(a, b) == IF a < b THEN a ELSE b

\* dict.get(k, default)
Get(d, k, default) == IF k \in DOMAIN d THEN d[k] ELSE default

\* d[k] = v on a dict
Put(d, k, v) == [x \in (DOMAIN d) \cup {k} |-> IF x = k THEN v ELSE d[x]]

\* str(n) for n >= 0: the decimal digits of n
DigitChar(d) ==
    CASE d = 0 -> "0" [] d = 1 -> "1" [] d = 2 -> "2" [] d = 3 -> "3" [] d = 4 -> "4"
      [] d = 5 -> "5" [] d = 6 -> "6" [] d = 7 -> "7" [] d = 8 -> "8" [] d = 9 -> "9"

RECURSIVE Str(_)
Str(n) == IF n < 10 THEN <<DigitChar(n)>> ELSE Str(n \div 10) \o <<DigitChar(n % 10)>>

\* f"{pid}_lap{lap}"
LapKey(pid, lap) == pid \o <<"_", "l", "a", "p">> \o Str(lap)

\* a pattern that lets five digits through
ID_RE_fullmatchLoose(data) ==
    /\ Len(data) >= 5
    /\ Len(data) <= 12
    /\ \A i \in 1..Len(data) : data[i] \in Digits

\* ID_RE = ^[0-9]{6,12}$ with fullmatch
ID_RE_fullmatch(data) ==
    /\ Len(data) >= 6
    /\ Len(data) <= 12
    /\ \A i \in 1..Len(data) : data[i] \in Digits

\* ---------- the runner registry (App.runs) ----------------------------------
Keys(rs) == {rs[i].key : i \in 1..Len(rs)}

IndexOf(rs, k) == CHOOSE i \in 1..Len(rs) : rs[i].key = k

\* self.runs[k] = rec: replaces the value of an existing key, else inserts last
SetItem(rs, k, rec) ==
    IF k \in Keys(rs) THEN [rs EXCEPT ![IndexOf(rs, k)] = rec] ELSE Append(rs, rec)

\* a lap search that never advances
FirstFreeLapStuck(rs, pid, lap) == lap

\* a lap search that steps past the free number it found
RECURSIVE FirstFreeLapPastFree(_, _, _)
FirstFreeLapPastFree(rs, pid, lap) ==
    IF LapKey(pid, lap) \in Keys(rs) THEN FirstFreeLapPastFree(rs, pid, lap + 1) ELSE lap + 1

\* the while loop of record_scan: the first lap number whose key is free
RECURSIVE FirstFreeLap(_, _, _)
FirstFreeLap(rs, pid, lap) ==
    IF LapKey(pid, lap) \in Keys(rs) THEN FirstFreeLap(rs, pid, lap + 1) ELSE lap

\* a record_scan that stamps the scan time as start
record_scanOwnStart(rs, started, start_ts, pid, t) ==
    LET rs1 == IF pid \in Keys(rs) THEN rs
               ELSE Append(rs, [key |-> pid, start |-> None, end |-> None])
        i == IndexOf(rs1, pid)
        lap == FirstFreeLap(rs1, pid, 1)
    IN  IF ~started THEN rs1
        ELSE IF rs1[i].start = None
             THEN [rs1 EXCEPT ![i].start = t]
        ELSE IF rs1[i].end = None
             THEN [rs1 EXCEPT ![i].end = t]
        ELSE SetItem(rs1, LapKey(pid, lap),
                     [key |-> LapKey(pid, lap), start |-> start_ts, end |-> t])

\* a record_scan whose first line inserts a new record even when pid has one
record_scanAlwaysInsert(rs, started, start_ts, pid, t) ==
    LET rs1 == Append(rs, [key |-> pid, start |-> None, end |-> None])
        i == IndexOf(rs1, pid)
        lap == FirstFreeLap(rs1, pid, 1)
    IN  IF ~started THEN rs1
        ELSE IF rs1[i].start = None
             THEN [rs1 EXCEPT ![i].start = start_ts]
        ELSE IF rs1[i].end = None
             THEN [rs1 EXCEPT ![i].end = t]
        ELSE SetItem(rs1, LapKey(pid, lap),
                     [key |-> LapKey(pid, lap), start |-> start_ts, end |-> t])

\* a record_scan whose start branch also notes the scan time as end
record_scanStampsBoth(rs, started, start_ts, pid, t) ==
    LET rs1 == IF pid \in Keys(rs) THEN rs
               ELSE Append(rs, [key |-> pid, start |-> None, end |-> None])
        i == IndexOf(rs1, pid)
        lap == FirstFreeLap(rs1, pid, 1)
    IN  IF ~started THEN rs1
        ELSE IF rs1[i].start = None
             THEN [rs1 EXCEPT ![i].start = start_ts, ![i].end = t]
        ELSE IF rs1[i].end = None
             THEN [rs1 EXCEPT ![i].end = t]
        ELSE SetItem(rs1, LapKey(pid, lap),
                     [key |-> LapKey(pid, lap), start |-> start_ts, end |-> t])

\* App.record_scan(pid) at clock t: the registry afterwards
record_scan(rs, started, start_ts, pid, t) ==
    LET rs1 == IF pid \in Keys(rs) THEN rs
               ELSE Append(rs, [key |-> pid, start |-> None, end |-> None])
        i == IndexOf(rs1, pid)
        lap == FirstFreeLap(rs1, pid, 1)
    IN  IF ~started THEN rs1
        ELSE IF rs1[i].start = None
             THEN [rs1 EXCEPT ![i].start = start_ts]
        ELSE IF rs1[i].end = None
             THEN [rs1 EXCEPT ![i].end = t]
        ELSE SetItem(rs1, LapKey(pid, lap),
                     [key |-> LapKey(pid, lap), start |-> start_ts, end |-> t])

\* a guard that forgets the started flag, and one that forgets the empty registry
StartRefusedNoFlag(started, rs) == rs = <<>>

StartRefusedNoEmpty(started, rs) == started

\* the guard of start_race: nothing happens when it holds
StartRefused(started, rs) == started \/ rs = <<>>

\* a start_race that stamps no record
StampAllNone(rs, start_ts) == rs

\* the loop of start_race: every record gets the gun time
StampAll(rs, start_ts) == [i \in 1..Len(rs) |-> [rs[i] EXCEPT !.start = start_ts]]

\* ---------- Scanner.process --------------------------------------------------
\* a frame-skip test that counts down to zero
ShouldSkipToZero(fs) == fs > 0

\* the frame-skip test at the top of process
ShouldSkip(fs) == fs > 1

\* a cooldown test that still rejects at exactly SCAN_COOLDOWN seconds
OnCooldownInclusive(ts, data, t) == t - Get(ts, data, 0) <= SCAN_COOLDOWN

\* the cooldown test of one decoded payload
OnCooldown(ts, data, t) == t - Get(ts, data, 0) < SCAN_COOLDOWN

\* a scanner that forgets to note the admission
StampForgotten(ts, data, t) == ts

\* self.last_scan_ts[data] = now
Stamp(ts, data, t) == Put(ts, data, t)

\* a loop whose cooldown branch notes the rejected sighting in the table
RECURSIVE ScanLoopRestamps(_, _, _, _, _)
ScanLoopRestamps(objs, acc, started, start_ts, t) ==
    IF objs = <<>> THEN acc
    ELSE LET data == Head(objs)
             nxt == IF ~ID_RE_fullmatch(data) THEN acc
                    ELSE IF OnCooldown(acc.ts, data, t)
                         THEN [acc EXCEPT !.ts = Stamp(@, data, t),
                                          !.ids = Append(@, data),
                                          !.oks = Append(@, FALSE)]
                    ELSE [ts |-> Stamp(acc.ts, data, t),
                          found_any |-> TRUE,
                          runs |-> record_scan(acc.runs, started, start_ts, data, t),
                          ids |-> Append(acc.ids, data),
                          oks |-> Append(acc.oks, TRUE)]
         IN  ScanLoopRestamps(Tail(objs), nxt, started, start_ts, t)

\* the for loop over decode(gray), state threaded through the decoded objects:
\* acc = [ts, found_any, runs, ids, oks]; on_code_cb calls record_scan at once.
\* ids lists the decoded payloads that match the pattern, oks whether each was
\* passed to on_code_cb.
RECURSIVE ScanLoop(_, _, _, _, _)
ScanLoop(objs, acc, started, start_ts, t) ==
    IF objs = <<>> THEN acc
    ELSE LET data == Head(objs)
             nxt == IF ~ID_RE_fullmatch(data) THEN acc
                    ELSE IF OnCooldown(acc.ts, data, t)
                         THEN [acc EXCEPT !.ids = Append(@, data),
                                          !.oks = Append(@, FALSE)]
                    ELSE [ts |-> Stamp(acc.ts, data, t),
                          found_any |-> TRUE,
                          runs |-> record_scan(acc.runs, started, start_ts, data, t),
                          ids |-> Append(acc.ids, data),
                          oks |-> Append(acc.oks, TRUE)]
         IN  ScanLoop(Tail(objs), nxt, started, start_ts, t)

\* frame_skip after a decode attempt: reset to 2, then raised if nothing was found
SkipAfter(found_any) ==
    IF found_any THEN FRAME_SKIP_RESET
    ELSE Min(FRAME_SKIP_RESET + 1, MAX_FRAME_SKIP)

\* the sequences of at most n elements of S
RECURSIVE SeqsUpTo(_, _)
SeqsUpTo(S, n) ==
    IF n = 0 THEN {<<>>}
    ELSE LET shorter == SeqsUpTo(S, n - 1)
         IN  shorter \cup {Append(x, e) : x \in shorter, e \in S}

\* what decode(gray) may return for a frame
Decodes(P) == SeqsUpTo(P, MaxCodes)

\* the payloads of step that reached on_code_cb, in order
RECURSIVE Admitted(_, _)
Admitted(ids, oks) ==
    IF ids = <<>> THEN <<>>
    ELSE (IF Head(oks) THEN <<Head(ids)>> ELSE <<>>) \o Admitted(Tail(ids), Tail(oks))

RECURSIVE PutAll(_, _, _)
PutAll(d, ps, t) == IF ps = <<>> THEN d ELSE PutAll(Put(d, Head(ps), t), Tail(ps), t)

NoStep == [op |-> "init", s |-> 0, att |-> FALSE, any |-> FALSE, ids |-> <<>>, oks |-> <<>>]

\* no camera thread yet. pc: the statement of CameraThread.run the thread is at;
\* cap: the VideoCapture is open; frame: the frame in hand (0: none); n: frames
\* acquired so far, the frame acquired k-th being k. History: turn, the parity
\* of the loop turns taken; full, the buffer as a put_nowait that raised Full
\* found it; dropped, the frame the except branch discarded for the frame in
\* hand (0: none); room, the free slots at the latest discard (None: no discard
\* yet); got, the frame update popped last.
NoThread ==
    [pc |-> "none", cap |-> FALSE, frame |-> 0, n |-> 0, turn |-> 0,
     full |-> <<>>, dropped |-> 0, room |-> None, got |-> 0]

\* ---------- initial state -----------------------------------------------------
InitAt(T) ==
    /\ now \in T
    /\ runs = <<>>
    /\ race_started = FALSE
    /\ race_start_ts = None
    /\ nsess = 0
    /\ win = [s \in Sessions |-> "none"]
    /\ q = [s \in Sessions |-> <<>>]
    /\ last_scan_ts = [s \in Sessions |-> <<>>]
    /\ frame_skip = [s \in Sessions |-> FRAME_SKIP_INIT]
    /\ interval = [s \in Sessions |-> FRAME_SKIP_INIT]
    /\ last_cb = [s \in Sessions |-> <<>>]
    /\ step = NoStep
    /\ hist = {}
    /\ cam = [s \in Sessions |-> NoThread]
    /\ csv = <<>>

\* ---------- the clock ---------------------------------------------------------
Tick(t) ==
    /\ t > now
    /\ now' = t
    /\ step' = [NoStep EXCEPT !.op = "tick"]
    /\ UNCHANGED <<runs, race_started, race_start_ts, nsess, win, q,
                   last_scan_ts, frame_skip, interval, last_cb>>

\* ---------- App.start_preview ---------------------------------------------------
\* ok = FALSE: CameraThread() raised RuntimeError (the webcam cannot be opened).
\* A new queue, camera thread, Scanner and window are made on every call.
StartPreview(ok, limit) ==
    /\ nsess < limit
    /\ IF ok
       THEN /\ nsess' = nsess + 1
            /\ win' = [win EXCEPT ![nsess + 1] = "open"]
       ELSE UNCHANGED <<nsess, win>>
    /\ step' = [NoStep EXCEPT !.op = "start_preview", !.s = IF ok THEN nsess + 1 ELSE 0]
    /\ UNCHANGED <<now, runs, race_started, race_start_ts, q,
                   last_scan_ts, frame_skip, interval, last_cb>>

\* the Escape binding: win.destroy(); the pending update callback never runs again
ClosePreview(s) ==
    /\ win[s] = "open"
    /\ win' = [win EXCEPT ![s] = "closed"]
    /\ step' = [NoStep EXCEPT !.op = "close_preview", !.s = s]
    /\ UNCHANGED <<now, runs, race_started, race_start_ts, nsess, q,
                   last_scan_ts, frame_skip, interval, last_cb>>

\* ---------- CameraThread.run ----------------------------------------------------
\* one turn of the loop: cap.read(); put_nowait, and on queue.Full drop the
\* oldest frame and put again. The thread outlives its window.
CamLoop(s, ok) ==
    /\ win[s] # "none"
    /\ q' = [q EXCEPT ![s] = IF ~ok THEN @
                             ELSE IF Len(@) < QUEUE_MAXSIZE THEN Append(@, 0)
                             ELSE Append(Tail(@), 0)]
    /\ step' = [NoStep EXCEPT !.op = "cam_loop", !.s = s]
    /\ UNCHANGED <<now, runs, race_started, race_start_ts, nsess, win,
                   last_scan_ts, frame_skip, interval, last_cb>>

\* ---------- start_preview.update (one tick of the consumer) -----------------------
\* objs: what decode(gray) returns for the frame, should it be decoded
Update(s, objs) ==
    /\ win[s] = "open"
    /\ IF q[s] = <<>>
       THEN \* queue.Empty: try again in 10 ms
            /\ step' = [NoStep EXCEPT !.op = "update_empty", !.s = s]
            /\ UNCHANGED <<runs, q, last_scan_ts, frame_skip, interval, last_cb>>
       ELSE /\ q' = [q EXCEPT ![s] = Tail(@)]
            /\ IF ShouldSkip(frame_skip[s])
               THEN \* skip: just down-count
                    /\ frame_skip' = [frame_skip EXCEPT ![s] = @ - 1]
                    /\ step' = [NoStep EXCEPT !.op = "update", !.s = s]
                    /\ UNCHANGED <<runs, last_scan_ts, interval, last_cb>>
               ELSE LET r == ScanLoop(objs,
                                      [ts |-> last_scan_ts[s], found_any |-> FALSE,
                                       runs |-> runs, ids |-> <<>>, oks |-> <<>>],
                                      race_started, race_start_ts, now)
                    IN  /\ last_scan_ts' = [last_scan_ts EXCEPT ![s] = r.ts]
                        /\ runs' = r.runs
                        /\ frame_skip' = [frame_skip EXCEPT ![s] = SkipAfter(r.found_any)]
                        /\ interval' = [interval EXCEPT ![s] = SkipAfter(r.found_any)]
                        /\ last_cb' = [last_cb EXCEPT
                                          ![s] = PutAll(@, Admitted(r.ids, r.oks), now)]
                        /\ step' = [op |-> "update", s |-> s, att |-> TRUE,
                                    any |-> objs # <<>>, ids |-> r.ids, oks |-> r.oks]
    /\ UNCHANGED <<now, race_started, race_start_ts, nsess, win>>

\* ---------- App.start_race ----------------------------------------------------------
StartRace ==
    /\ IF StartRefused(race_started, runs)
       THEN UNCHANGED <<runs, race_started, race_start_ts>>
       ELSE /\ race_start_ts' = now
            /\ race_started' = TRUE
            /\ runs' = StampAll(runs, now)
    /\ step' = [NoStep EXCEPT !.op = "start_race",
                                !.att = ~StartRefused(race_started, runs)]
    /\ UNCHANGED <<now, nsess, win, q, last_scan_ts, frame_skip, interval, last_cb>>

\* ---------- history of decodes -----------------------------------------------------
\* the decodes of valid ids made by the handler that just ran
Events(st, t) ==
    {[s |-> st.s, p |-> st.ids[i], t |-> t, ok |-> st.oks[i]] : i \in 1..Len(st.ids)}

Recorded == hist' = hist \cup Events(step', now')

\* ---------- the application with one preview session -----------------------------------
Init == InitAt(Instants)

Next ==
    \/ \E t \in Instants : Tick(t) /\ UNCHANGED <<hist, cam, csv>>
    \/ \E ok \in BOOLEAN : StartPreview(ok, 1) /\ UNCHANGED <<hist, cam, csv>>
    \/ \E s \in Sessions : ClosePreview(s) /\ UNCHANGED <<hist, cam, csv>>
    \/ \E s \in Sessions, ok \in BOOLEAN : CamLoop(s, ok) /\ UNCHANGED <<hist, cam, csv>>
    \/ \E s \in Sessions, objs \in Decodes({IdA, IdB, Junk}) : Update(s, objs) /\ UNCHANGED <<hist, cam, csv>>
    \/ StartRace /\ UNCHANGED <<hist, cam, csv>>

Spec == Init /\ [][Next]_vars

\* ---------- several preview sessions, one runner id ---------------------------------------
InitSessions == InitAt(SessionInstants)

NextSessions ==
    \/ \E t \in SessionInstants : Tick(t) /\ UNCHANGED <<hist, cam, csv>>
    \/ \E ok \in BOOLEAN : StartPreview(ok, MaxSessions) /\ UNCHANGED <<hist, cam, csv>>
    \/ \E s \in Sessions : ClosePreview(s) /\ UNCHANGED <<hist, cam, csv>>
    \/ \E s \in Sessions, ok \in BOOLEAN : CamLoop(s, ok) /\ UNCHANGED <<hist, cam, csv>>
    \/ \E s \in Sessions, objs \in Decodes({IdA}) : Update(s, objs) /\ UNCHANGED <<hist, cam, csv>>
    \/ StartRace /\ UNCHANGED <<hist, cam, csv>>

SpecSessions == InitSessions /\ [][NextSessions]_vars

\* ---------- one session, long enough for a runner to finish and lap twice --------------------
InitLaps == InitAt(LapInstants)

NextLaps ==
    \/ \E t \in LapInstants : Tick(t) /\ UNCHANGED <<hist, cam, csv>>
    \/ \E ok \in BOOLEAN : StartPreview(ok, 1) /\ UNCHANGED <<hist, cam, csv>>
    \/ \E s \in Sessions : ClosePreview(s) /\ UNCHANGED <<hist, cam, csv>>
    \/ \E s \in Sessions, ok \in BOOLEAN : CamLoop(s, ok) /\ UNCHANGED <<hist, cam, csv>>
    \/ \E s \in Sessions, objs \in Decodes({IdA, IdB}) : Update(s, objs) /\ UNCHANGED <<hist, cam, csv>>
    \/ StartRace /\ UNCHANGED <<hist, cam, csv>>

SpecLaps == InitLaps /\ [][NextLaps]_vars

\* ---------- one session around the cooldown boundary, decodes recorded ---------------------
InitCooldown == InitAt(CooldownInstants)

NextCooldown ==
    \/ \E t \in CooldownInstants : Tick(t) /\ UNCHANGED <<hist, cam, csv>>
    \/ \E ok \in BOOLEAN : StartPreview(ok, 1) /\ UNCHANGED <<hist, cam, csv>>
    \/ \E s \in Sessions : ClosePreview(s) /\ UNCHANGED <<hist, cam, csv>>
    \/ \E s \in Sessions, ok \in BOOLEAN : CamLoop(s, ok) /\ UNCHANGED <<hist, cam, csv>>
    \/ \E s \in Sessions, objs \in Decodes({IdA, Junk}) : Update(s, objs) /\ Recorded /\ UNCHANGED <<cam, csv>>

SpecCooldown == InitCooldown /\ [][NextCooldown]_vars

\* ---------- the race of two runners in a preview that stays open, decodes recorded -----------
\* what the camera shows: both runners before the gun, then A 5 s, B 7 s and
\* A 13 s after a gun at 20 s; a frame may always show no code
ScenarioDecodes(t) ==
    {<<>>} \cup (CASE t < 20 -> {<<IdA>>, <<IdB>>}
                   [] t = 25 \/ t = 33 -> {<<IdA>>}
                   [] t = 27 -> {<<IdB>>}
                   [] OTHER -> {})

InitScenario == InitAt(ScenarioInstants)

NextScenario ==
    \/ \E t \in ScenarioInstants : Tick(t) /\ UNCHANGED <<hist, cam, csv>>
    \/ \E ok \in BOOLEAN : StartPreview(ok, 1) /\ UNCHANGED <<hist, cam, csv>>
    \/ \E s \in Sessions, ok \in BOOLEAN : CamLoop(s, ok) /\ UNCHANGED <<hist, cam, csv>>
    \/ \E s \in Sessions, objs \in ScenarioDecodes(now) : Update(s, objs) /\ Recorded /\ UNCHANGED <<cam, csv>>
    \/ StartRace /\ UNCHANGED <<hist, cam, csv>>

SpecScenario == InitScenario /\ [][NextScenario]_vars

\* ---------- CameraThread.run, statement by statement --------------------------------------
\* cam_thread.start() in start_preview: the capture is open, the loop begins
ThreadStarted ==
    cam' = IF nsess' # nsess
           THEN [cam EXCEPT ![nsess'] = [NoThread EXCEPT !.pc = "read", !.cap = TRUE]]
           ELSE cam

\* ok, frame = self.cap.read(); if not ok: continue
CamRead(s, ok) ==
    /\ cam[s].pc = "read"
    /\ ok => cam[s].n < MaxFrames
    /\ cam' = [cam EXCEPT ![s] =
                  IF ok
                  THEN [@ EXCEPT !.pc = "put", !.frame = cam[s].n + 1, !.n = @ + 1,
                                 !.turn = 1 - @, !.full = <<>>, !.dropped = 0]
                  ELSE [@ EXCEPT !.turn = 1 - @]]
    /\ step' = [NoStep EXCEPT !.op = "cam_read", !.s = s]
    /\ UNCHANGED <<now, runs, race_started, race_start_ts, nsess, win, q,
                   last_scan_ts, frame_skip, interval, last_cb, hist, csv>>

\* try: self.q.put_nowait(frame), which raises queue.Full on a full queue
CamPut(s) ==
    /\ cam[s].pc = "put"
    /\ IF Len(q[s]) < QUEUE_MAXSIZE
       THEN /\ q' = [q EXCEPT ![s] = Append(@, cam[s].frame)]
            /\ cam' = [cam EXCEPT ![s].pc = "read", ![s].frame = 0]
       ELSE /\ cam' = [cam EXCEPT ![s].pc = "get", ![s].full = q[s]]
            /\ UNCHANGED q
    /\ step' = [NoStep EXCEPT !.op = "cam_put", !.s = s]
    /\ UNCHANGED <<now, runs, race_started, race_start_ts, nsess, win,
                   last_scan_ts, frame_skip, interval, last_cb, hist, csv>>

\* except queue.Full: try: self.q.get_nowait() / except queue.Empty: pass
CamGet(s) ==
    /\ cam[s].pc = "get"
    /\ IF q[s] # <<>>
       THEN /\ q' = [q EXCEPT ![s] = Tail(@)]
            /\ cam' = [cam EXCEPT ![s].pc = "reput", ![s].dropped = Head(q[s]),
                                  ![s].room = QUEUE_MAXSIZE - Len(q[s])]
       ELSE /\ cam' = [cam EXCEPT ![s].pc = "reput"]
            /\ UNCHANGED q
    /\ step' = [NoStep EXCEPT !.op = "cam_get", !.s = s]
    /\ UNCHANGED <<now, runs, race_started, race_start_ts, nsess, win,
                   last_scan_ts, frame_skip, interval, last_cb, hist, csv>>

\* self.q.put_nowait(frame) in the except branch: a queue.Full here is caught by
\* nothing and ends the thread
CamReput(s) ==
    /\ cam[s].pc = "reput"
    /\ IF Len(q[s]) < QUEUE_MAXSIZE
       THEN /\ q' = [q EXCEPT ![s] = Append(@, cam[s].frame)]
            /\ cam' = [cam EXCEPT ![s].pc = "read", ![s].frame = 0]
       ELSE /\ cam' = [cam EXCEPT ![s].pc = "dead"]
            /\ UNCHANGED q
    /\ step' = [NoStep EXCEPT !.op = "cam_reput", !.s = s]
    /\ UNCHANGED <<now, runs, race_started, race_start_ts, nsess, win,
                   last_scan_ts, frame_skip, interval, last_cb, hist, csv>>

\* one statement of the camera thread of session s
CamThread(s) ==
    \/ \E ok \in BOOLEAN : CamRead(s, ok)
    \/ CamPut(s)
    \/ CamGet(s)
    \/ CamReput(s)

\* frame = q.get_nowait() in update: the frame the consumer received
Popped(s) ==
    cam' = [cam EXCEPT ![s].got = IF q[s] # <<>> THEN Head(q[s]) ELSE @]

\* ---------- one session, the camera thread interleaved with the consumer --------------------
\* the operating system keeps scheduling the daemon thread while the process lives
InitCamera == InitAt(CameraInstants)

NextCamera ==
    \/ \E ok \in BOOLEAN : StartPreview(ok, 1) /\ ThreadStarted /\ UNCHANGED <<hist, csv>>
    \/ \E s \in Sessions : ClosePreview(s) /\ UNCHANGED <<hist, cam, csv>>
    \/ \E s \in Sessions, ok \in BOOLEAN : CamRead(s, ok)
    \/ \E s \in Sessions : CamPut(s)
    \/ \E s \in Sessions : CamGet(s)
    \/ \E s \in Sessions : CamReput(s)
    \/ \E s \in Sessions : Update(s, <<>>) /\ Popped(s) /\ UNCHANGED <<hist, csv>>

SpecCamera ==
    InitCamera /\ [][NextCamera]_vars /\ \A s \in Sessions : WF_vars(CamThread(s))

\* ---------- App.export_csv -----------------------------------------------------------------
\* Where a run exports, a datetime is a whole number of ticks of 250
\* microseconds.
TicksPerSecond == 4000

At(d, sc, u) == (d * 86400 + sc) * TicksPerSecond + u \div 250

\* end - start of two datetimes: a timedelta, normalised as Python keeps it
\* (0 <= seconds < 86400, 0 <= microseconds < 1000000)
TimeDelta(end, start) ==
    LET ticks == end - start
    IN  [days |-> ticks \div (86400 * TicksPerSecond),
         seconds |-> (ticks \div TicksPerSecond) % 86400,
         microseconds |-> (ticks % TicksPerSecond) * 250]

\* f"{n:0{w}d}" for n >= 0: the decimal digits of n, zero-padded to w at least
RECURSIVE Pad(_, _)
Pad(ds, w) == IF Len(ds) >= w THEN ds ELSE Pad(<<"0">> \o ds, w)

\* the duration column of a record
duration_str(rec) ==
    IF rec.start # None /\ rec.end # None
    THEN LET td == TimeDelta(rec.end, rec.start)
             minutes == td.seconds \div 60
             seconds == td.seconds % 60
             millis == td.microseconds \div 1000
         IN  Pad(Str(minutes), 2) \o <<":">> \o Pad(Str(seconds), 2)
                 \o <<":">> \o Pad(Str(millis), 3)
    ELSE <<>>

\* iso(dt): isoformat with timespec="seconds" drops the microseconds; "" for None
iso(dt) == IF dt = None THEN <<>> ELSE Str(dt \div TicksPerSecond)

\* the row written for a record
Row(rec) ==
    [id |-> rec.key, start |-> iso(rec.start), end |-> iso(rec.end),
     duration |-> duration_str(rec)]

\* path_ok = FALSE: the file dialog was cancelled. Nothing is written for an
\* empty registry either.
ExportCsv(path_ok) ==
    /\ IF runs # <<>> /\ path_ok
       THEN csv' = [i \in 1..Len(runs) |-> Row(runs[i])]
       ELSE UNCHANGED csv
    /\ step' = [NoStep EXCEPT !.op = "export_csv", !.att = (runs # <<>> /\ path_ok)]
    /\ UNCHANGED <<now, runs, race_started, race_start_ts, nsess, win, q,
                   last_scan_ts, frame_skip, interval, last_cb, hist, cam>>

\* ---------- the export of a registry of up to two runners ------------------------------------
\* the datetimes a record may hold: a gun time and finish times from no time
\* at all to more than two days after it
GunTime == At(0, 43200, 500000)

FinishTimes ==
    {At(0, 43200, 500000), At(0, 43200, 500750), At(0, 43200, 501000),
     At(0, 43201, 499750), At(0, 43201, 500000), At(0, 43260, 499750),
     At(0, 43260, 500000), At(0, 43322, 1500), At(0, 46800, 499750),
     At(0, 46800, 500000), At(0, 46861, 501000), At(0, 86399, 999750),
     At(1, 0, 0), At(1, 43200, 499750), At(1, 43200, 500000),
     At(1, 43205, 500000), At(2, 46800, 750250)}

\* the registries of a race begun at GunTime
ExportRegistries ==
    {<<>>}
    \cup {<<[key |-> IdA, start |-> None, end |-> None]>>}
    \cup {<<[key |-> IdA, start |-> GunTime, end |-> e]>> : e \in FinishTimes \cup {None}}
    \cup {<<[key |-> IdA, start |-> GunTime, end |-> e1],
            [key |-> IdB, start |-> GunTime, end |-> e2]>> :
              e1 \in FinishTimes, e2 \in FinishTimes \cup {None}}

InitExport ==
    /\ now \in Instants
    /\ runs \in ExportRegistries
    /\ race_started = (runs # <<>> /\ runs[1].start # None)
    /\ race_start_ts = IF race_started THEN GunTime ELSE None
    /\ nsess = 0
    /\ win = [s \in Sessions |-> "none"]
    /\ q = [s \in Sessions |-> <<>>]
    /\ last_scan_ts = [s \in Sessions |-> <<>>]
    /\ frame_skip = [s \in Sessions |-> FRAME_SKIP_INIT]
    /\ interval = [s \in Sessions |-> FRAME_SKIP_INIT]
    /\ last_cb = [s \in Sessions |-> <<>>]
    /\ step = NoStep
    /\ hist = {}
    /\ cam = [s \in Sessions |-> NoThread]
    /\ csv = <<>>

NextExport == \E path_ok \in BOOLEAN : ExportCsv(path_ok)

SpecExport == InitExport /\ [][NextExport]_vars

\* ---------- what the properties speak of -----------------------------------------------
Rec(rs, k) == rs[IndexOf(rs, k)]

\* the latest handler was a decode attempt of session s
Attempt(s) == step.op = "update" /\ step.att /\ step.s = s

\* the same, in the state a step leads to
AttemptNext(s) == step'.op = "update" /\ step'.att /\ step'.s = s

\* the keys f"{pid}_lap{n}" a registry of the size of rs can hold
LapKeys(rs, pid) == {LapKey(pid, n) : n \in 1..(Len(rs) + 1)}

\* ---------- C3 -------------------------------------------------------------------------
\* C3: every runner record (primary or lap) has start either null or equal to the
\* gun time race_start_ts, and in the state a successful start_race leaves every
\* record has start = race_start_ts.
C3_StartIsGunTime ==
    /\ \A i \in 1..Len(runs) : runs[i].start \in {None, race_start_ts}
    /\ (step.op = "start_race" /\ step.att) =>
           /\ race_start_ts # None
           /\ \A i \in 1..Len(runs) : runs[i].start = race_start_ts

\* start_race has just stamped two registered runners
C3_Witness ==
    /\ step.op = "start_race"
    /\ step.att
    /\ Len(runs) >= 2

\* ---------- C4 -------------------------------------------------------------------------
\* C4: no step moves a record backward: a start or an end that is set keeps its
\* value, every record stays in the registry at its place, and race_started,
\* once true, stays true.
C4_NoBackward ==
    [][/\ race_started => race_started'
       /\ Len(runs') >= Len(runs)
       /\ \A i \in 1..Len(runs) :
              /\ runs'[i].key = runs[i].key
              /\ runs[i].start # None => runs'[i].start = runs[i].start
              /\ runs[i].end # None => runs'[i].end = runs[i].end]_vars

\* a runner finished and was scanned again: the lap record stands beside the
\* finished primary record
C4_Witness ==
    /\ IdA \in Keys(runs)
    /\ LapKey(IdA, 1) \in Keys(runs)
    /\ Rec(runs, IdA).end # None
    /\ Rec(runs, IdA).end < Rec(runs, LapKey(IdA, 1)).end

\* ---------- C6 -------------------------------------------------------------------------
\* C6: start_race on an empty registry leaves the race unstarted (race_started
\* false, race_start_ts null) and changes no state; start_race on a started race
\* leaves race_start_ts and every record unchanged.
C6_StartRaceRefused ==
    [][step'.op = "start_race" =>
          /\ runs = <<>> =>
                 /\ ~race_started'
                 /\ race_start_ts' = None
                 /\ UNCHANGED <<now, runs, race_started, race_start_ts, nsess, win, q,
                                last_scan_ts, frame_skip>>
          /\ race_started =>
                 /\ race_started'
                 /\ race_start_ts' = race_start_ts
                 /\ runs' = runs]_vars

\* start_race was called again, later than the gun, with runners registered
C6_Witness ==
    /\ step.op = "start_race"
    /\ ~step.att
    /\ race_started
    /\ race_start_ts < now
    /\ runs # <<>>

\* ---------- C8 -------------------------------------------------------------------------
\* C8: frame_skip of every scanner stays within 1..MAX_FRAME_SKIP.
C8_SkipInRange ==
    \A s \in Sessions : frame_skip[s] >= 1 /\ frame_skip[s] <= MAX_FRAME_SKIP

\* an empty decode attempt raised frame_skip and two frames counted it down to 1
C8_Witness ==
    \E s \in Sessions : win[s] = "open" /\ interval[s] > FRAME_SKIP_RESET /\ frame_skip[s] = 1

\* ---------- C9 -------------------------------------------------------------------------
\* C9: a decode attempt that finds no code leaves frame_skip one above the
\* interval the previous attempt left, capped at MAX_FRAME_SKIP.
C9_RaiseByOne ==
    [][\A s \in Sessions :
          (AttemptNext(s) /\ ~step'.any) =>
              frame_skip'[s] = Min(interval[s] + 1, MAX_FRAME_SKIP)]_vars

\* ---------- C10 ------------------------------------------------------------------------
\* C10: a decode attempt that returns valid codes, all of them rejected by the
\* cooldown, leaves frame_skip at its baseline as an attempt with an admitted
\* code does.
C10_RejectedStillFound ==
    \A s \in Sessions :
        (Attempt(s) /\ step.ids # <<>> /\ \A i \in 1..Len(step.oks) : ~step.oks[i]) =>
            frame_skip[s] = FRAME_SKIP_RESET

\* ---------- C1 ------------------------------------------------------------------------
\* the admissions of payload p by session s, among the recorded decodes
Admissions(s, p) == {e \in hist : e.s = s /\ e.p = p /\ e.ok}

\* the time of the latest admission of p by s not after t
LatestAdmission(s, p, t) ==
    CHOOSE m \in {e.t : e \in Admissions(s, p)} :
        m <= t /\ \A e \in Admissions(s, p) : e.t <= t => e.t <= m

\* C1: within one Scanner, a payload admitted at t1 is rejected at every t2 > t1
\* with t2 - t1 < SCAN_COOLDOWN; a payload whose latest admission t1 lies
\* SCAN_COOLDOWN or more before t2 is admitted at t2 (a decode is rejected only
\* within SCAN_COOLDOWN of the latest admission); so the decodes of a payload
\* within 2 seconds of an admission hold exactly that one admission.
C1_Cooldown ==
    \A e2 \in hist :
        /\ \A e1 \in Admissions(e2.s, e2.p) :
               (e1.t < e2.t /\ e2.t - e1.t < SCAN_COOLDOWN) => ~e2.ok
        /\ (~e2.ok /\ \E e1 \in Admissions(e2.s, e2.p) : e1.t < e2.t) =>
               e2.t - LatestAdmission(e2.s, e2.p, e2.t) < SCAN_COOLDOWN
        /\ e2.ok =>
               Cardinality({e \in Admissions(e2.s, e2.p) :
                                e.t >= e2.t /\ e.t <= e2.t + 2}) = 1

\* a payload decoded three times within 2 seconds, admitted once, and admitted
\* again SCAN_COOLDOWN seconds after that admission
C1_Witness ==
    \E e1 \in hist :
        /\ e1.ok
        /\ [e1 EXCEPT !.t = e1.t + 1, !.ok = FALSE] \in hist
        /\ [e1 EXCEPT !.t = e1.t + 2, !.ok = FALSE] \in hist
        /\ [e1 EXCEPT !.t = e1.t + SCAN_COOLDOWN - 1, !.ok = FALSE] \in hist
        /\ [e1 EXCEPT !.t = e1.t + SCAN_COOLDOWN] \in hist

\* ---------- C2 ------------------------------------------------------------------------
\* the payloads the step passes to record_scan, in order
Calls == IF step'.op = "update" THEN Admitted(step'.ids, step'.oks) ELSE <<>>

NoRepeat(ps) == \A i, j \in 1..Len(ps) : i # j => ps[i] # ps[j]

\* C2 as stated: whichever preview makes them, two record_scan(p) calls are never
\* less than SCAN_COOLDOWN apart.
C2_SpacedAcrossSessions ==
    [][/\ NoRepeat(Calls)
       /\ \A i \in 1..Len(Calls), s \in Sessions :
              Calls[i] \in DOMAIN last_cb[s] =>
                  now' - last_cb[s][Calls[i]] >= SCAN_COOLDOWN]_vars

\* C2 amended: two record_scan(p) calls made by the same preview session (the same
\* Scanner) are never less than SCAN_COOLDOWN apart.
C2_SpacedWithinSession ==
    [][/\ NoRepeat(Calls)
       /\ \A i \in 1..Len(Calls) :
              Calls[i] \in DOMAIN last_cb[step'.s] =>
                  now' - last_cb[step'.s][Calls[i]] >= SCAN_COOLDOWN]_vars

\* the only session there is called record_scan for a runner before the gun and
\* again SCAN_COOLDOWN seconds later, which set the runner's end
C2_Witness ==
    /\ nsess = 1
    /\ race_started
    /\ IdA \in Keys(runs)
    /\ Rec(runs, IdA).end = race_start_ts + SCAN_COOLDOWN
    /\ last_cb[1][IdA] = race_start_ts + SCAN_COOLDOWN

\* ---------- C5 ------------------------------------------------------------------------
\* the record of pid has both timestamps
Finished(rs, pid) ==
    /\ pid \in Keys(rs)
    /\ Rec(rs, pid).start # None
    /\ Rec(rs, pid).end # None

\* the smallest positive n whose lap key is not in rs
SmallestUnused(rs, pid) ==
    CHOOSE n \in 1..(Len(rs) + 1) :
        /\ LapKey(pid, n) \notin Keys(rs)
        /\ \A m \in 1..(n - 1) : LapKey(pid, m) \in Keys(rs)

\* C5: with the race started, an accepted event for an id whose record has start
\* and end creates exactly one record, keyed f"{id}_lap{N}" for the smallest
\* unused N >= 1, with start = race_start_ts and end = the event time, and leaves
\* the primary record and the earlier lap records of id as they were.
C5_Laps ==
    [][\A i \in 1..Len(Calls) :
          LET pid == Calls[i]
              key == LapKey(pid, SmallestUnused(runs, pid))
          IN  (race_started /\ Finished(runs, pid)) =>
                  /\ (Keys(runs') \ Keys(runs)) \cap LapKeys(runs', pid) = {key}
                  /\ Rec(runs', key) = [key |-> key, start |-> race_start_ts, end |-> now']
                  /\ \A j \in 1..Len(runs) :
                         runs[j].key \in {pid} \cup LapKeys(runs, pid) =>
                             runs'[j] = runs[j]]_vars

\* the second lap record of a runner was made after the first
C5_Witness ==
    /\ Finished(runs, IdA)
    /\ LapKey(IdA, 1) \in Keys(runs)
    /\ LapKey(IdA, 2) \in Keys(runs)
    /\ IndexOf(runs, IdA) < IndexOf(runs, LapKey(IdA, 1))
    /\ IndexOf(runs, LapKey(IdA, 1)) < IndexOf(runs, LapKey(IdA, 2))

\* ---------- C7 ------------------------------------------------------------------------
\* payload p was decoded at time t
ScanAt(p, t) == \E e \in hist : e.p = p /\ e.t = t

\* the registering scans of p: its admissions before the gun
Registering(p) == {e \in hist : e.p = p /\ e.ok /\ e.t < race_start_ts}

\* the time of the latest of them
RegisteredAt(p) ==
    CHOOSE m \in {e.t : e \in Registering(p)} : \A e \in Registering(p) : e.t <= m

\* A and B were registered by scans before the gun at T0 = race_start_ts, and
\* the scans after the gun were A at T0+5, B at T0+7 and A at T0+3+SCAN_COOLDOWN
ScenarioDone ==
    /\ race_started
    /\ Registering(IdA) # {}
    /\ Registering(IdB) # {}
    /\ ScanAt(IdA, race_start_ts + 5)
    /\ ScanAt(IdB, race_start_ts + 7)
    /\ ScanAt(IdA, race_start_ts + 3 + SCAN_COOLDOWN)
    /\ \A e \in hist :
           e.t >= race_start_ts =>
               <<e.p, e.t - race_start_ts>> \in
                   {<<IdA, 5>>, <<IdB, 7>>, <<IdA, 3 + SCAN_COOLDOWN>>}

\* C7 as stated: after the scenario A has start = T0 and end = T0+3+SCAN_COOLDOWN
\* (a duration of 3+SCAN_COOLDOWN seconds) and B has start = T0 and no end.
C7_ScenarioAsStated ==
    ScenarioDone =>
        /\ Rec(runs, IdA).start = race_start_ts
        /\ Rec(runs, IdA).end = race_start_ts + 3 + SCAN_COOLDOWN
        /\ Rec(runs, IdA).end - Rec(runs, IdA).start = 3 + SCAN_COOLDOWN
        /\ Rec(runs, IdB).start = race_start_ts
        /\ Rec(runs, IdB).end = None

\* C7 amended: in one preview session that stays open, after the scenario A and B
\* have start = T0 and there is no lap record; a runner's end is the time of its
\* first scan after the gun when its latest registering scan is SCAN_COOLDOWN or
\* more older than that scan (A: T0+5, B: T0+7); when the registering scan is
\* more recent, the scans at T0+5 and T0+7 are rejected and A ends at
\* T0+3+SCAN_COOLDOWN, B has no end.
C7_ScenarioByCooldown ==
    ScenarioDone =>
        /\ Keys(runs) = {IdA, IdB}
        /\ Rec(runs, IdA).start = race_start_ts
        /\ Rec(runs, IdB).start = race_start_ts
        /\ Rec(runs, IdA).end =
               IF race_start_ts + 5 - RegisteredAt(IdA) >= SCAN_COOLDOWN
               THEN race_start_ts + 5
               ELSE race_start_ts + 3 + SCAN_COOLDOWN
        /\ Rec(runs, IdB).end =
               IF race_start_ts + 7 - RegisteredAt(IdB) >= SCAN_COOLDOWN
               THEN race_start_ts + 7
               ELSE None

\* the scenario ran with both runners registered shortly before the gun: the
\* scans at T0+5 and T0+7 were rejected and A ended at T0+3+SCAN_COOLDOWN
C7_Witness ==
    /\ ScenarioDone
    /\ race_start_ts + 5 - RegisteredAt(IdA) < SCAN_COOLDOWN
    /\ race_start_ts + 7 - RegisteredAt(IdB) < SCAN_COOLDOWN
    /\ Rec(runs, IdA).end = race_start_ts + 3 + SCAN_COOLDOWN
    /\ Rec(runs, IdB).end = None

\* ---------- C11 -----------------------------------------------------------------------
\* C11: under every interleaving of the camera thread with the consumer, a push
\* never fails (the put_nowait of the except branch never raises Full and ends
\* the thread) and never blocks (the thread always has a step to take), the
\* buffer never holds more than QUEUE_MAXSIZE frames, and a push that found the
\* buffer full ends with the oldest of the five frames discarded and the newest
\* at the back of the buffer.
C11_PushDropsOldest ==
    \A s \in Sessions :
        /\ cam[s].pc # "dead"
        /\ cam[s].pc \in {"put", "get", "reput"} => ENABLED CamThread(s)
        /\ Len(q[s]) <= QUEUE_MAXSIZE
        /\ (step.op = "cam_reput" /\ step.s = s) =>
               /\ cam[s].dropped = Head(cam[s].full)
               /\ q[s][Len(q[s])] = cam[s].n

\* ---------- C12 -----------------------------------------------------------------------
\* C12: once the preview window of a session is destroyed, its camera thread
\* eventually ends and its capture is released, and from then on no frame is
\* pushed into the session's buffer.
C12_ThreadStops ==
    /\ \A s \in Sessions :
           [](win[s] = "closed" => <>(cam[s].pc = "done" /\ ~cam[s].cap))
    /\ [][\A s \in Sessions :
              (cam[s].pc = "done" /\ Len(q[s]) > 0) =>
                  (Len(q'[s]) > 0 /\ q'[s][Len(q'[s])] = q[s][Len(q[s])])]_vars

\* ---------- C19 -----------------------------------------------------------------------
\* C19: the camera thread discards a buffered frame only when the buffer has no
\* free slot at the moment of the discard, and the consumer receives frames in
\* the order of their acquisition.
C19_DiscardsOnlyWhenFull ==
    /\ [](\A s \in Sessions : cam[s].room \in {None, 0})
    /\ [][\A s \in Sessions :
              cam'[s].got # cam[s].got => cam'[s].got > cam[s].got]_vars

\* ---------- C13 -----------------------------------------------------------------------
\* the registry after registering the ids ps in order: a record without
\* timestamps for each id that has none
RECURSIVE RegisterAll(_, _)
RegisterAll(rs, ps) ==
    IF ps = <<>> THEN rs
    ELSE RegisterAll(IF Head(ps) \in Keys(rs) THEN rs
                     ELSE Append(rs, [key |-> Head(ps), start |-> None, end |-> None]),
                     Tail(ps))

\* C13: while the race is not started, the accepted events of a step only
\* register: each id without a record gets one with start and end null, records
\* that exist stay as they are, no timestamp is set and no lap record is made,
\* and another accepted event for the same id leaves the registry as it is.
C13_RegistersOnly ==
    [][(~race_started /\ step'.op = "update") =>
          /\ runs' = RegisterAll(runs, Calls)
          /\ \A i \in 1..Len(runs') : runs'[i].start = None /\ runs'[i].end = None
          /\ \A i \in 1..Len(Calls) :
                 /\ Calls[i] \in Keys(runs')
                 /\ record_scan(runs', race_started, race_start_ts, Calls[i], now') = runs'
          /\ (\A i \in 1..Len(Calls) : Calls[i] \in Keys(runs)) => runs' = runs]_vars

\* before the gun runner A was registered, then runner B at 10 s, and A's
\* accepted event at 20 s left both records as they were
C13_Witness ==
    /\ ~race_started
    /\ Attempt(1)
    /\ Admitted(step.ids, step.oks) = <<IdA>>
    /\ now = 20
    /\ IdB \in DOMAIN last_cb[1]
    /\ last_cb[1][IdB] = 10
    /\ runs = <<[key |-> IdA, start |-> None, end |-> None],
                [key |-> IdB, start |-> None, end |-> None]>>

\* ---------- C14 -----------------------------------------------------------------------
\* the ids the step passes to record_scan
CallSet == {Calls[i] : i \in 1..Len(Calls)}

\* C14: with the race started, an accepted event for an id without a record, or
\* with a record whose start is null, leaves that record with start =
\* race_start_ts and end null; an accepted event at time t for a record with
\* start set and end null sets its end to t and keeps its start; no record of
\* another id changes, and neither case makes any other record.
C14_StartThenEnd ==
    [][(race_started /\ step'.op = "update") =>
          /\ \A pid \in CallSet :
                 /\ (pid \notin Keys(runs) \/ Rec(runs, pid).start = None) =>
                        /\ pid \in Keys(runs')
                        /\ Rec(runs', pid) =
                               [key |-> pid, start |-> race_start_ts, end |-> None]
                 /\ (pid \in Keys(runs) /\ Rec(runs, pid).start # None
                                        /\ Rec(runs, pid).end = None) =>
                        Rec(runs', pid) = [Rec(runs, pid) EXCEPT !.end = now']
          /\ \A j \in 1..Len(runs) : runs[j].key \notin CallSet => runs'[j] = runs[j]
          /\ Keys(runs') \ Keys(runs) \subseteq
                 CallSet \cup UNION {LapKeys(runs', pid) :
                                        pid \in {c \in CallSet : Finished(runs, c)}}]_vars

\* after the gun runner A, registered before it, got its end from the accepted
\* event just handled, and runner B, first seen after the gun, has start =
\* race_start_ts and no end
C14_Witness ==
    /\ race_started
    /\ Attempt(1)
    /\ Admitted(step.ids, step.oks) = <<IdA>>
    /\ IdB \in DOMAIN last_cb[1]
    /\ last_cb[1][IdB] > race_start_ts
    /\ now > race_start_ts
    /\ runs = <<[key |-> IdA, start |-> race_start_ts, end |-> now],
                [key |-> IdB, start |-> race_start_ts, end |-> None]>>

\* ---------- C15 -----------------------------------------------------------------------
\* a runner id: a string of 6 to 12 decimal digits
IsRunnerId(k) == \E n \in 6..12 : k \in [1..n -> Digits]

\* C15: a decoded payload that is not a runner id makes no accepted event, no
\* cooldown-table entry and no runner record: every key of the registry is a
\* runner id or the lap key of a runner id that has a primary record, every
\* payload of a cooldown table or passed to on_code_cb is a runner id, and a
\* decode attempt whose payloads are all rejected by the pattern leaves the
\* registry and the cooldown table as they were.
C15_GarbageIgnored ==
    /\ [](/\ \A i \in 1..Len(runs) :
                \/ IsRunnerId(runs[i].key)
                \/ \E p \in Keys(runs), n \in 1..Len(runs) :
                       IsRunnerId(p) /\ runs[i].key = LapKey(p, n)
          /\ \A s \in Sessions :
                /\ \A p \in DOMAIN last_scan_ts[s] : IsRunnerId(p)
                /\ \A p \in DOMAIN last_cb[s] : IsRunnerId(p))
    /\ [][(step'.op = "update" /\ step'.att /\ step'.any /\ step'.ids = <<>>) =>
              UNCHANGED <<runs, last_scan_ts, last_cb>>]_vars

\* a decode attempt returned only payloads the pattern rejects, with a runner
\* and its lap record in the registry
C15_Witness ==
    /\ Attempt(1)
    /\ step.any
    /\ step.ids = <<>>
    /\ Keys(runs) = {IdA, LapKey(IdA, 1)}
    /\ DOMAIN last_scan_ts[1] = {IdA}

\* ---------- C16 -----------------------------------------------------------------------
\* the admissions of e's payload by e's session before e
Earlier(e) == {e1 \in Admissions(e.s, e.p) : e1.t < e.t}

\* C16: an update step sets the cooldown-table entry of each payload it admits
\* to the time of the step and leaves every other entry, those of the payloads
\* it rejects among them, as it was; so a table entry is the time of the
\* payload's latest admission, and a payload decoded SCAN_COOLDOWN or more after
\* its latest admission is admitted, whatever rejected decodes lie between.
C16_RejectionKeepsTable ==
    /\ [][step'.op = "update" =>
              \A s \in Sessions :
                  \A p \in DOMAIN last_scan_ts[s] \cup DOMAIN last_scan_ts'[s] :
                      IF s = step'.s /\ p \in CallSet
                      THEN last_scan_ts'[s][p] = now'
                      ELSE /\ p \in DOMAIN last_scan_ts[s]
                           /\ p \in DOMAIN last_scan_ts'[s]
                           /\ last_scan_ts'[s][p] = last_scan_ts[s][p]]_vars
    /\ [](/\ \A s \in Sessions :
                \A p \in DOMAIN last_scan_ts[s] :
                    /\ Admissions(s, p) # {}
                    /\ last_scan_ts[s][p] = LatestAdmission(s, p, now)
          /\ \A e \in hist :
                (Earlier(e) # {} /\ \A e1 \in Earlier(e) : e.t - e1.t >= SCAN_COOLDOWN) =>
                    [e EXCEPT !.ok = TRUE] \in hist)

\* a payload admitted at 10 s was rejected at 11 s and at 19 s and admitted
\* again at 20 s
C16_Witness ==
    /\ IdA \in DOMAIN last_scan_ts[1]
    /\ last_scan_ts[1][IdA] = 20
    /\ {[s |-> 1, p |-> IdA, t |-> 10, ok |-> TRUE],
        [s |-> 1, p |-> IdA, t |-> 11, ok |-> FALSE],
        [s |-> 1, p |-> IdA, t |-> 19, ok |-> FALSE],
        [s |-> 1, p |-> IdA, t |-> 20, ok |-> TRUE]} \subseteq hist

\* ---------- C17 -----------------------------------------------------------------------
\* C17: a valid payload the session has not admitted before is admitted on its
\* first decode whatever the clock reads: a decode is rejected only when the
\* session admitted the same payload before.
C17_FirstSightAdmitted ==
    \A e \in hist :
        ~e.ok => \E e1 \in Admissions(e.s, e.p) : e1.t <= e.t

\* ---------- C18 -----------------------------------------------------------------------
\* the value of a decimal digit, and of a string of them
DigitVal(c) == CHOOSE d \in 0..9 : DigitChar(d) = c

RECURSIVE ParseInt(_)
ParseInt(ds) ==
    IF ds = <<>> THEN 0
    ELSE ParseInt(SubSeq(ds, 1, Len(ds) - 1)) * 10 + DigitVal(ds[Len(ds)])

Colons(f) == {i \in 1..Len(f) : f[i] = ":"}

IsDigits(ds) == \A i \in 1..Len(ds) : ds[i] \in Digits

\* the three parts of a field of the form MM:SS:mmm
Parts(f) ==
    LET c1 == CHOOSE i \in Colons(f) : \A j \in Colons(f) : i <= j
        c2 == CHOOSE i \in Colons(f) : \A j \in Colons(f) : i >= j
    IN  [mm |-> SubSeq(f, 1, c1 - 1), ss |-> SubSeq(f, c1 + 1, c2 - 1),
         ms |-> SubSeq(f, c2 + 1, Len(f))]

\* end - start in whole milliseconds
ElapsedMs(end, start) == (end - start) \div (TicksPerSecond \div 1000)

\* the field reads MM:SS:mmm and denotes ms milliseconds
Denotes(f, ms) ==
    /\ Cardinality(Colons(f)) = 2
    /\ LET p == Parts(f)
       IN  /\ IsDigits(p.mm) /\ Len(p.mm) >= 2
           /\ IsDigits(p.ss) /\ Len(p.ss) = 2
           /\ IsDigits(p.ms) /\ Len(p.ms) = 3
           /\ ParseInt(p.ss) \in 0..59
           /\ ParseInt(p.ms) \in 0..999
           /\ ParseInt(p.mm) * 60000 + ParseInt(p.ss) * 1000 + ParseInt(p.ms) = ms

\* C18: in an exported file the duration field of every record with start and
\* end reads MM:SS:mmm and denotes end - start in whole milliseconds, whatever
\* the elapsed time, an hour or a day and more included; the duration field of
\* a record missing a timestamp is empty.
C18_DurationExact ==
    (step.op = "export_csv" /\ step.att) =>
        /\ Len(csv) = Len(runs)
        /\ \A i \in 1..Len(runs) :
               IF runs[i].start # None /\ runs[i].end # None
               THEN Denotes(csv[i].duration, ElapsedMs(runs[i].end, runs[i].start))
               ELSE csv[i].duration = <<>>

\* ---------- C20 -----------------------------------------------------------------------
\* the keys of rs that are a lap key of pid, with their lap numbers
LapNumbers(rs, pid) == {n \in 1..(Len(rs) + 1) : LapKey(pid, n) \in Keys(rs)}

\* C20: a record with end set has start set; before the gun every record has
\* start and end null and there is no lap record; and when the lap record N of
\* an id exists, the primary record of the id has start and end and the lap
\* records 1 to N-1 of the id exist.
C20_RegistryShape ==
    /\ \A i \in 1..Len(runs) : runs[i].end # None => runs[i].start # None
    /\ ~race_started =>
           /\ \A i \in 1..Len(runs) : runs[i].start = None /\ runs[i].end = None
           /\ \A i \in 1..Len(runs) : IsRunnerId(runs[i].key)
    /\ \A i \in 1..Len(runs) :
           IsRunnerId(runs[i].key) =>
               \A n \in LapNumbers(runs, runs[i].key) :
                   /\ Finished(runs, runs[i].key)
                   /\ \A m \in 1..(n - 1) : LapKey(runs[i].key, m) \in Keys(runs)
    /\ \A pid \in {IdA, IdB}, n \in 1..(Len(runs) + 1) :
           LapKey(pid, n) \in Keys(runs) => Finished(runs, pid)

\* runner A has two lap records while runner B, registered after A, has a start
\* and no end
C20_Witness ==
    /\ race_started
    /\ LapNumbers(runs, IdA) = {1, 2}
    /\ IdB \in Keys(runs)
    /\ Rec(runs, IdB).start = race_start_ts
    /\ Rec(runs, IdB).end = None
    /\ LapNumbers(runs, IdB) = {}

====
